---------------------------- MODULE Spec2Model ----------------------------
(***************************************************************************)
(* A model of nn_modules.py: the neighbor samplers, the embedding          *)
(* preprocessors and the aggregators of the GraphSAGE encoder.             *)
(*                                                                         *)
(* Each family has its own specification (SpecSparse, SpecDense,           *)
(* SpecPrep, SpecAgg); a call of the Python code is one action.            *)
(* Tensors are sequences; a real number is a fraction [num, den].          *)
(***************************************************************************)
EXTENDS Integers, Sequences, FiniteSets, TLC

VARIABLES sparseSampler, sparseCall,   \* a SparseUniformNeighborSampler, its call
          denseSampler, denseCall,     \* a UniformNeighborSampler, its call
          prep, prepCall,              \* a preprocessor, its forward
          agg, aggCall                 \* an aggregator, its forward

vars == <<sparseSampler, sparseCall, denseSampler, denseCall,
          prep, prepCall, agg, aggCall>>

sparseVars == <<sparseSampler, sparseCall>>
denseVars  == <<denseSampler, denseCall>>
prepVars   == <<prep, prepCall>>
aggVars    == <<agg, aggCall>>

(***************************************************************************)
(* Bounds of the model.                                                    *)
(***************************************************************************)
\* rows of an adjacency structure (adj.shape[0])
NumNodes == 2
\* columns of the sparse adjacency matrix (adj.shape[1])
SparseWidth == 2
\* longest batch of ids handed to a call
MaxBatch == 2
\* largest explicit n_samples
MaxSamples == 2
\* columns of the dense adjacency table (adj.size(1))
DenseWidth == 3
\* deepest layer_idx handed to a preprocessor
MaxLayer == 2
\* largest input_dim and output_dim of an aggregator
MaxDim == 2
\* most neighbors per node in neib_feats
MaxNeighbors == 2
\* binary digits kept of a softmax weight
FracBits == 8

Nodes == 0 .. (NumNodes - 1)
SparseCols == 0 .. (SparseWidth - 1)
DenseCols == 0 .. (DenseWidth - 1)
Batches == UNION { [1 .. b -> Nodes] : b \in 0 .. MaxBatch }

Idle == [status |-> "idle"]

(***************************************************************************)
(* SparseUniformNeighborSampler                                            *)
(***************************************************************************)
\* n_samples=128 in the signature of __call__
SparseDefaultNSamples == 128

\* The columns a row stores: the first d columns (the layout of the class
\* docstring, padding at the end) or the last d columns (padding first).
RowPatterns ==
    { 0 .. (d - 1) : d \in 0 .. SparseWidth } \cup
    { (SparseWidth - d) .. (SparseWidth - 1) : d \in 1 .. SparseWidth }

\* The csr matrices the sampler is built from: entry (i, c) is either absent
\* (0) or the stored neighbor id c + 1.
SparseAdjs ==
    { [i \in Nodes |-> [c \in SparseCols |-> IF c \in pat[i] THEN c + 1 ELSE 0]] :
        pat \in [Nodes -> RowPatterns] }

\* np.unique(adj.nonzero()[0], return_counts=True) scattered into zeros
Degrees(adj) ==
    [i \in DOMAIN adj |-> Cardinality({c \in DOMAIN adj[i] : adj[i][c] # 0})]

SparseUniformNeighborSampler(adj) ==
    [adj |-> adj, degrees |-> Degrees(adj)]

\* numpy's integer remainder: x % 0 is 0 (with a RuntimeWarning), not an error
NpMod(x, d) == IF d = 0 THEN 0 ELSE x % d

\* np.random.choice(width, (rows, n)), row-major: the generator's stream is
\* an arithmetic progression reduced into [0, width)
RandomChoice(width, count, seed, stride) ==
    [t \in 1 .. count |-> (seed + stride * (t - 1)) % width]

Strides == {0, 1}

\* np.arange(rows).repeat(n): the batch row of flat position t
RepeatRow(t, n) == ((t - 1) \div n) + 1

SelModDegreesMutant(raw, ids, n, degrees) ==
    [t \in DOMAIN raw |-> NpMod(raw[t], degrees[ids[RepeatRow(t, n)]] + 1)]

\* sel % self.degrees[ids].reshape(-1, 1)
SelModDegrees(raw, ids, n, degrees) ==
    [t \in DOMAIN raw |-> NpMod(raw[t], degrees[ids[RepeatRow(t, n)]])]

SparseSamplerCall(self, ids, given, n_samples, seed, stride) ==
    IF ~(n_samples > 0)
    THEN [status |-> "AssertionError", ids |-> ids, given |-> given,
          n_samples |-> n_samples, sel |-> <<>>, result |-> <<>>]
    ELSE LET raw == RandomChoice(SparseWidth, Len(ids) * n_samples, seed, stride)
             sel == SelModDegrees(raw, ids, n_samples, self.degrees)
             tmp == [t \in DOMAIN sel |->
                        self.adj[ids[RepeatRow(t, n_samples)]][sel[t]]]
         IN  [status |-> "returned", ids |-> ids, given |-> given,
              n_samples |-> n_samples, sel |-> sel, result |-> tmp]

\* the families a specification leaves out stay unbuilt
SparseUnbuilt == sparseSampler = Idle /\ sparseCall = Idle
DenseUnbuilt  == denseSampler = Idle /\ denseCall = Idle
PrepUnbuilt   == prep = Idle /\ prepCall = Idle
AggUnbuilt    == agg = Idle /\ aggCall = Idle

SparseInit ==
    /\ sparseSampler \in { SparseUniformNeighborSampler(adj) : adj \in SparseAdjs }
    /\ sparseCall = Idle
    /\ DenseUnbuilt /\ PrepUnbuilt /\ AggUnbuilt

\* sampler(ids, n_samples)
SparseCallExplicit ==
    /\ sparseCall = Idle
    /\ \E ids \in Batches, n \in -1 .. MaxSamples,
          seed \in SparseCols, stride \in Strides :
        /\ sparseCall' = SparseSamplerCall(sparseSampler, ids, TRUE, n, seed, stride)
        /\ UNCHANGED <<sparseSampler, denseVars, prepVars, aggVars>>

\* sampler(ids)
SparseCallDefault ==
    /\ sparseCall = Idle
    /\ \E ids \in Batches, seed \in SparseCols, stride \in Strides :
        /\ sparseCall' = SparseSamplerCall(sparseSampler, ids, FALSE,
                                           SparseDefaultNSamples, seed, stride)
        /\ UNCHANGED <<sparseSampler, denseVars, prepVars, aggVars>>

\* the caller takes the outcome of the call; the sampler is ready again
SparseCallOver ==
    /\ sparseCall # Idle
    /\ sparseCall' = Idle
    /\ UNCHANGED <<sparseSampler, denseVars, prepVars, aggVars>>

SparseNext == SparseCallExplicit \/ SparseCallDefault \/ SparseCallOver

SpecSparse == SparseInit /\ [][SparseNext]_vars

\* Row i of adj keeps its degrees[i] neighbor ids in columns 0 .. degrees[i]-1.
SparsePacked(self) ==
    \A i \in DOMAIN self.adj : \A c \in DOMAIN self.adj[i] :
        (self.adj[i][c] # 0) <=> (c < self.degrees[i])

\* The stored, non-padding neighbor ids of node i.
StoredNeighbors(self, i) ==
    { self.adj[i][c] : c \in { k \in DOMAIN self.adj[i] : self.adj[i][k] # 0 } }

SparseCalled == sparseCall.status # "idle"

\* C1: with every row packed to the left, every queried id of degree >= 1 and
\* n_samples >= 1, the call returns len(ids) * n_samples entries, and the entry
\* at flat position i * n_samples + j is a stored neighbor of ids[i], read
\* from a column in [0, degrees[ids[i]]).
C1_SparseMembership ==
    ( /\ SparseCalled
      /\ SparsePacked(sparseSampler)
      /\ sparseCall.n_samples >= 1
      /\ \A i \in DOMAIN sparseCall.ids :
            sparseSampler.degrees[sparseCall.ids[i]] >= 1 )
    => /\ sparseCall.status = "returned"
       /\ Len(sparseCall.result) = Len(sparseCall.ids) * sparseCall.n_samples
       /\ \A i \in DOMAIN sparseCall.ids : \A j \in 0 .. (sparseCall.n_samples - 1) :
            LET t == (i - 1) * sparseCall.n_samples + j + 1
                id == sparseCall.ids[i]
            IN  /\ sparseCall.sel[t] \in 0 .. (sparseSampler.degrees[id] - 1)
                /\ sparseCall.result[t] \in StoredNeighbors(sparseSampler, id)

\* C1's case: two different nodes of different degree in one batch, two
\* samples each, one row with padding the modulo has to keep away from.
C1_Witness ==
    /\ sparseCall.status = "returned"
    /\ SparsePacked(sparseSampler)
    /\ Len(sparseCall.ids) = 2
    /\ sparseCall.n_samples = 2
    /\ sparseSampler.degrees[sparseCall.ids[1]] = 1
    /\ sparseSampler.degrees[sparseCall.ids[2]] = 2
    /\ sparseCall.result = <<1, 1, 1, 2>>

\* C2: a call whose ids hold a node of degree 0 ends in an error raised before
\* the modulo reduction and returns no ids.
C2_ZeroDegreeRejected ==
    ( /\ SparseCalled
      /\ \E i \in DOMAIN sparseCall.ids :
            sparseSampler.degrees[sparseCall.ids[i]] = 0 )
    => /\ sparseCall.status # "returned"
       /\ sparseCall.sel = <<>>
       /\ sparseCall.result = <<>>

\* C3: a call that omits n_samples, or passes n_samples <= 0, fails before any
\* sampling and returns no ids.
C3_NSamplesMandatory ==
    ( /\ SparseCalled
      /\ (~sparseCall.given \/ sparseCall.n_samples <= 0) )
    => /\ sparseCall.status = "AssertionError"
       /\ sparseCall.sel = <<>>
       /\ sparseCall.result = <<>>

(***************************************************************************)
(* UniformNeighborSampler                                                  *)
(***************************************************************************)
\* n_samples=-1 in the signature of __call__
DenseDefaultNSamples == -1

Min(a, b) == IF a < b THEN a ELSE b
Max(a, b) == IF a > b THEN a ELSE b

\* The dense tables: row i holds DenseWidth ids in 0 .. NumNodes (NumNodes is
\* the dummy node); with m = 1 the ids of a row differ, with m = 0 the row
\* repeats one id (a node upsampled with replacement).
DenseAdjs ==
    { [i \in Nodes |-> [c \in DenseCols |-> (i + m * c + s) % (NumNodes + 1)]] :
        m \in {0, 1}, s \in 0 .. NumNodes }

UniformNeighborSampler(adj) == [adj |-> adj]

\* torch.randperm(n): the orders of 0 .. n-1
RandPerms(n) ==
    { p \in [0 .. (n - 1) -> 0 .. (n - 1)] :
        \A a, b \in 0 .. (n - 1) : p[a] = p[b] => a = b }

\* the number of items a Python slice [:stop] keeps of len items
SliceStopMutant(len, stop) == IF stop < 0 THEN len ELSE Min(stop, len)

SliceStop(len, stop) ==
    IF stop < 0 THEN Max(len + stop, 0) ELSE Min(stop, len)

\* a mutant that permutes each row on its own: row r is rotated r more places
PermuteColumnsMutant(tmp, perm) ==
    [r \in DOMAIN tmp |->
        [j \in DOMAIN perm |-> tmp[r][perm[(j + r) % DenseWidth]]]]

\* tmp[:,perm]
PermuteColumns(tmp, perm) ==
    [r \in DOMAIN tmp |-> [j \in DOMAIN perm |-> tmp[r][perm[j]]]]

DenseSamplerCall(self, ids, given, n_samples, perm) ==
    LET tmp  == [r \in DOMAIN ids |-> self.adj[ids[r]]]
        tmp2 == PermuteColumns(tmp, perm)
        keep == SliceStop(DenseWidth, n_samples)
    IN  [status |-> "returned", ids |-> ids, given |-> given,
         n_samples |-> n_samples,
         result |-> [r \in DOMAIN tmp2 |-> [j \in 1 .. keep |-> tmp2[r][j - 1]]]]

DenseInit ==
    /\ denseSampler \in { UniformNeighborSampler(adj) : adj \in DenseAdjs }
    /\ denseCall = Idle
    /\ SparseUnbuilt /\ PrepUnbuilt /\ AggUnbuilt

\* sampler(ids, n_samples)
DenseCallExplicit ==
    /\ denseCall = Idle
    /\ \E ids \in Batches, n \in -1 .. (DenseWidth + 1), perm \in RandPerms(DenseWidth) :
        /\ denseCall' = DenseSamplerCall(denseSampler, ids, TRUE, n, perm)
        /\ UNCHANGED <<denseSampler, sparseVars, prepVars, aggVars>>

\* sampler(ids)
DenseCallDefault ==
    /\ denseCall = Idle
    /\ \E ids \in Batches, perm \in RandPerms(DenseWidth) :
        /\ denseCall' = DenseSamplerCall(denseSampler, ids, FALSE,
                                         DenseDefaultNSamples, perm)
        /\ UNCHANGED <<denseSampler, sparseVars, prepVars, aggVars>>

\* the caller takes the result; the sampler is ready again
DenseCallOver ==
    /\ denseCall # Idle
    /\ denseCall' = Idle
    /\ UNCHANGED <<denseSampler, sparseVars, prepVars, aggVars>>

DenseNext == DenseCallExplicit \/ DenseCallDefault \/ DenseCallOver

SpecDense == DenseInit /\ [][DenseNext]_vars

DenseCalled == denseCall.status # "idle"

\* the sequences of k different columns
DistinctColumns(k) ==
    { q \in [1 .. k -> DenseCols] : \A a, b \in 1 .. k : q[a] = q[b] => a = b }

\* C4: with 1 <= n_samples <= W every node of the batch gets n_samples entries
\* of its own row, read at n_samples different columns, and the columns are
\* the same, in the same order, for every node of the batch.
C4_DenseSharedColumns ==
    ( /\ DenseCalled
      /\ denseCall.n_samples >= 1
      /\ denseCall.n_samples <= DenseWidth )
    => /\ denseCall.status = "returned"
       /\ Len(denseCall.result) = Len(denseCall.ids)
       /\ \E q \in DistinctColumns(denseCall.n_samples) :
            \A i \in DOMAIN denseCall.ids :
                denseCall.result[i] =
                    [j \in 1 .. denseCall.n_samples |->
                        denseSampler.adj[denseCall.ids[i]][q[j]]]

\* C4's case: two different nodes whose rows hold different ids, two of the
\* three columns kept.
C4_Witness ==
    /\ denseCall.status = "returned"
    /\ denseCall.ids = <<0, 1>>
    /\ denseCall.n_samples = 2
    /\ denseSampler.adj[0] # denseSampler.adj[1]
    /\ denseSampler.adj[0][0] # denseSampler.adj[0][1]
    /\ denseCall.result[1] = <<denseSampler.adj[0][2], denseSampler.adj[0][0]>>
    /\ denseCall.result[2] = <<denseSampler.adj[1][2], denseSampler.adj[1][0]>>

\* C10: every node of the batch gets the same number of ids: min(n_samples, W)
\* for n_samples >= 1, and W - 1 when n_samples is omitted.
C10_DenseCount ==
    DenseCalled =>
        /\ denseCall.status = "returned"
        /\ (denseCall.given /\ denseCall.n_samples >= 1) =>
              \A i \in DOMAIN denseCall.ids :
                  Len(denseCall.result[i]) = Min(denseCall.n_samples, DenseWidth)
        /\ ~denseCall.given =>
              \A i \in DOMAIN denseCall.ids :
                  Len(denseCall.result[i]) = DenseWidth - 1

\* C10's case: n_samples omitted for a batch of two nodes, and the last
\* column of the permuted rows is gone.
C10_Witness ==
    /\ denseCall.status = "returned"
    /\ Len(denseCall.ids) = 2
    /\ ~denseCall.given
    /\ Len(denseCall.result[1]) = DenseWidth - 1
    /\ Len(denseCall.result[2]) = DenseWidth - 1

(***************************************************************************)
(* NodeEmbeddingPrep and BagOfWordsPrep                                    *)
(***************************************************************************)
\* embedding_dim=8 of NodeEmbeddingPrep.__init__
NodeEmbeddingDim == 8
\* output_dim=32 of BagOfWordsPrep.__init__
BagOfWordsOutputDim == 32

\* nn.Embedding(num_embeddings=n_nodes + 1, ...): one trained row per index,
\* here a number in {0, 1}
EmbeddingWeights(n_nodes) == [0 .. n_nodes -> {0, 1}]

NodeEmbeddingPrep(input_dim, n_nodes, weight) ==
    [kind |-> "node_embedding", n_nodes |-> n_nodes, input_dim |-> input_dim,
     num_embeddings |-> n_nodes + 1, weight |-> weight,
     output_dim |-> IF input_dim # 0 THEN input_dim + NodeEmbeddingDim
                                     ELSE NodeEmbeddingDim]

BagOfWordsPrep(input_dim, n_nodes, weight) ==
    [kind |-> "bag_of_words", n_nodes |-> n_nodes, input_dim |-> input_dim,
     num_embeddings |-> n_nodes + 1, weight |-> weight,
     output_dim |-> BagOfWordsOutputDim * 2]

PrepLookupMutant(self, ids, layer_idx) ==
    IF layer_idx >= 0 THEN ids ELSE [i \in DOMAIN ids |-> self.n_nodes]

\* the indices handed to the node embedding: ids, or ids zeroed + n_nodes
PrepLookup(self, ids, layer_idx) ==
    IF layer_idx > 0 THEN ids ELSE [i \in DOMAIN ids |-> self.n_nodes]

\* forward of both classes, up to the embedding rows it reads and the width
\* of what it returns (torch.cat along dim 1)
PrepForward(self, ids, layer_idx) ==
    LET lookup == PrepLookup(self, ids, layer_idx)
    IN  IF \E i \in DOMAIN lookup : lookup[i] \notin 0 .. (self.num_embeddings - 1)
        THEN [status |-> "IndexError", ids |-> ids, layer_idx |-> layer_idx,
              lookup |-> lookup, embs |-> <<>>, width |-> 0]
        ELSE [status |-> "returned", ids |-> ids, layer_idx |-> layer_idx,
              lookup |-> lookup,
              embs |-> [i \in DOMAIN lookup |-> self.weight[lookup[i]]],
              width |-> self.output_dim]

PrepInit ==
    /\ prep \in
         { NodeEmbeddingPrep(d, NumNodes, w) :
              d \in {0, 2}, w \in EmbeddingWeights(NumNodes) }
         \cup { BagOfWordsPrep(2, NumNodes, w) : w \in EmbeddingWeights(NumNodes) }
    /\ prepCall = Idle
    /\ SparseUnbuilt /\ DenseUnbuilt /\ AggUnbuilt

\* prep(ids, feats, layer_idx)
PrepCallForward ==
    /\ prepCall = Idle
    /\ \E ids \in Batches, layer_idx \in 0 .. MaxLayer :
        /\ prepCall' = PrepForward(prep, ids, layer_idx)
        /\ UNCHANGED <<prep, sparseVars, denseVars, aggVars>>

\* the caller takes the result
PrepCallOver ==
    /\ prepCall # Idle
    /\ prepCall' = Idle
    /\ UNCHANGED <<prep, sparseVars, denseVars, aggVars>>

PrepNext == PrepCallForward \/ PrepCallOver

SpecPrep == PrepInit /\ [][PrepNext]_vars

PrepCalled == prepCall.status # "idle"

\* C5: at layer_idx = 0 every element of the batch reads index n_nodes, which
\* is what any other batch of that size would read, is no node id of
\* [0, n_nodes) and lies inside the table; at layer_idx > 0 element i reads
\* ids[i].
C5_SentinelLookup ==
    PrepCalled =>
        /\ prepCall.status = "returned"
        /\ prepCall.layer_idx = 0 =>
              /\ \A i \in DOMAIN prepCall.ids :
                    /\ prepCall.lookup[i] = prep.n_nodes
                    /\ prepCall.lookup[i] \notin 0 .. (prep.n_nodes - 1)
                    /\ prepCall.lookup[i] \in 0 .. (prep.num_embeddings - 1)
              /\ \A ids2 \in [DOMAIN prepCall.ids -> Nodes] :
                    PrepForward(prep, ids2, 0).lookup = prepCall.lookup
        /\ prepCall.layer_idx > 0 => prepCall.lookup = prepCall.ids

\* C5's case: a forward at layer 0 over two different node ids.
C5_Witness ==
    /\ prepCall.status = "returned"
    /\ prepCall.layer_idx = 0
    /\ prepCall.ids = <<0, 1>>
    /\ prepCall.lookup = <<prep.n_nodes, prep.n_nodes>>

(***************************************************************************)
(* Aggregators.  A 2-D tensor is a sequence of rows; a row is a fraction   *)
(* vector [n |-> numerators, d |-> common denominator].                    *)
(***************************************************************************)
Row(ns) == [n |-> ns, d |-> 1]

RECURSIVE SumTo(_, _)
\* f[1] + ... + f[k]
SumTo(f, k) == IF k = 0 THEN 0 ELSE f[k] + SumTo(f, k - 1)

RECURSIVE MaxTo(_, _)
\* max(f[1], ..., f[k]), k >= 1
MaxTo(f, k) == IF k = 1 THEN f[1] ELSE Max(f[k], MaxTo(f, k - 1))

RECURSIVE Pow2(_)
Pow2(k) == IF k = 0 THEN 1 ELSE 2 * Pow2(k - 1)

Dot(w, x) == SumTo([i \in DOMAIN w |-> w[i] * x[i]], Len(w))

\* the entry (r, c) of a feature matrix: a value in {-1, 0, 1}
FeatVal(seed, r, c) == ((seed * r + r + c) % 3) - 1

\* node_feats / neib_feats: rows x width values
Feats(seed, rows, width) ==
    [r \in 1 .. rows |-> Row([c \in 1 .. width |-> FeatVal(seed, r, c)])]

\* the trained weight matrix of one layer (out x in), entries in {-1, 0, 1}
Weight(seed, layer, out, in) ==
    [o \in 1 .. out |-> [i \in 1 .. in |-> ((seed + layer + 2 * o + i) % 3) - 1]]

\* the trained bias of one layer
Bias(seed, layer, out) == [o \in 1 .. out |-> ((seed + layer + o) % 3) - 1]

NoBias(out) == [o \in 1 .. out |-> 0]

\* nn.Linear applied to one row: W x + b
Linear(W, b, x) ==
    [n |-> [o \in DOMAIN W |-> Dot(W[o], x.n) + b[o] * x.d], d |-> x.d]

\* nn.ReLU / F.relu on one row
Relu(x) == [n |-> [i \in DOMAIN x.n |-> Max(x.n[i], 0)], d |-> x.d]

\* nn.Tanh on a row of integers, as the clamp to [-1, 1]
Tanh(x) == [n |-> [i \in DOMAIN x.n |-> Max(-1, Min(1, x.n[i]))], d |-> x.d]

\* the activation handed to the constructor: None or F.relu
Activations == {"None", "relu"}
Activate(act, x) == IF act = "relu" THEN Relu(x) ELSE x

\* the combine functions: torch.cat(x, dim=1) (the default) and x[0] + x[1]
CombineFns == {"cat", "sum"}

Combine(fn, a, b) ==
    IF fn = "cat"
    THEN [n |-> [i \in DOMAIN a.n |-> a.n[i] * b.d] \o
                [i \in DOMAIN b.n |-> b.n[i] * a.d],
          d |-> a.d * b.d]
    ELSE [n |-> [i \in DOMAIN a.n |-> a.n[i] * b.d + b.n[i] * a.d],
          d |-> a.d * b.d]

\* AggregatorMixin.output_dim: combine_fn on two zero rows of width output_dim_
MixinOutputDim(fn, output_dim_) ==
    LET tmp == Row([i \in 1 .. output_dim_ |-> 0])
    IN  Len(Combine(fn, tmp, tmp).n)

\* x.view(batch, -1, width) of a tensor of `rows` rows: can it be done
ViewOk(rows, batch) == batch # 0 /\ rows % batch = 0

\* the rows of node b after x.view(batch, -1, width)
Group(x, batch, b) ==
    LET k == Len(x) \div batch
    IN  [j \in 1 .. k |-> x[(b - 1) * k + j]]

\* a mutant of the mean: the first row counts twice
MeanDim1Mutant(g) ==
    [n |-> [c \in DOMAIN g[1].n |->
               SumTo([j \in DOMAIN g |-> g[j].n[c]], Len(g)) + g[1].n[c]],
     d |-> g[1].d * (Len(g) + 1)]

\* x.mean(dim=1) for the rows of one node
MeanDim1(g) ==
    [n |-> [c \in DOMAIN g[1].n |-> SumTo([j \in DOMAIN g |-> g[j].n[c]], Len(g))],
     d |-> g[1].d * Len(g)]

\* x.max(dim=1)[0] for the rows of one node
MaxDim1(g) ==
    [n |-> [c \in DOMAIN g[1].n |-> MaxTo([j \in DOMAIN g |-> g[j].n[c]], Len(g))],
     d |-> g[1].d]

AggKinds == {"psimple_mean", "mean", "simple_mean", "max_pool", "mean_pool",
             "lstm", "attention"}
HiddenKinds == {"max_pool", "mean_pool", "lstm", "attention"}

\* the hidden_dim values handed to the constructors that take one
HiddenDims == {1, 2}

\* the seeds of the feature values and of the trained weights
Seeds == {0, 1, 2}

\* __init__ of the classes of aggregator_lookup; args are the arguments of the
\* call: input_dim, output_dim, activation, hidden_dim, combine_fn and the seed
\* the layers are initialised from
AggregatorInit(kind, args) ==
    CASE kind = "psimple_mean" ->
            \* line 343 reads the undefined name output_dim_
            [kind |-> kind, status |-> "NameError", args |-> args]
      [] kind = "lstm" /\ args.hidden_dim % 2 # 0 ->
            [kind |-> kind, status |-> "AssertionError", args |-> args]
      [] kind = "simple_mean" ->
            [kind |-> kind, status |-> "constructed", args |-> args,
             input_dim |-> args.input_dim, output_dim |-> args.output_dim,
             seed |-> args.seed]
      [] OTHER ->
            [kind |-> kind, status |-> "constructed", args |-> args,
             input_dim |-> args.input_dim, output_dim_ |-> args.output_dim,
             output_dim |-> MixinOutputDim(args.combine_fn, args.output_dim),
             activation |-> args.activation, hidden_dim |-> args.hidden_dim,
             combine_fn |-> args.combine_fn, seed |-> args.seed]

\* The statements of each forward that touch a tensor, in source order.
MeanAggregatorStepsMutant ==
    <<"fc_node", "view", "mean", "fc_neib", "combine_fn", "activation">>

MeanAggregatorSteps ==
    <<"view", "mean", "fc_node", "fc_neib", "combine_fn", "activation">>

SimpleMeanAggregatorSteps == <<"view", "mean", "fc_neib">>

PoolAggregatorSteps ==
    <<"mlp", "view", "pool_fn", "fc_node", "fc_neib", "combine_fn", "activation">>

LSTMAggregatorSteps ==
    <<"fc_node", "view", "lstm", "fc_neib", "combine_fn", "activation">>

AttentionAggregatorSteps ==
    <<"att", "att", "view", "view", "bmm", "squeeze", "softmax", "view",
      "unsqueeze", "mul", "sum", "fc_node", "fc_neib", "combine_fn", "activation">>

RECURSIVE Before(_, _)
\* the steps that ran when the first `stop` step raised
Before(steps, stop) ==
    IF steps = <<>> \/ Head(steps) = stop THEN <<>>
    ELSE <<Head(steps)>> \o Before(Tail(steps), stop)

\* the steps a forward ran: all of them (`if self.activation:` skips the last
\* without an activation), or those before the view that raised
Ran(steps, activation, ok) ==
    IF ~ok THEN Before(steps, "view")
    ELSE IF activation = "None" THEN SelectSeq(steps, LAMBDA x : x # "activation")
    ELSE steps

\* what a forward hands back, or the RuntimeError of a view that cannot be done
Outcome(ok, ops, ws, out) ==
    IF ok THEN [status |-> "returned", ops |-> ops, ws |-> ws, out |-> out]
          ELSE [status |-> "RuntimeError", ops |-> ops, ws |-> <<>>, out |-> <<>>]

\* self.fc_node, self.fc_neib (bias=False)
FcNode(self, x) ==
    Linear(Weight(self.seed, 1, self.output_dim_, self.input_dim),
           NoBias(self.output_dim_), x)
FcNeib(self, in, x) ==
    Linear(Weight(self.seed, 2, self.output_dim_, in), NoBias(self.output_dim_), x)

\* out = combine_fn([fc_node(node), fc_neib(agg)]); activation
CombineOut(self, in, node, aggd) ==
    Activate(self.activation,
             Combine(self.combine_fn, FcNode(self, node), FcNeib(self, in, aggd)))

MeanAggregatorForward(self, node_feats, neib_feats) ==
    LET B  == Len(node_feats)
        ok == ViewOk(Len(neib_feats), B)
    IN  Outcome(ok, Ran(MeanAggregatorSteps, self.activation, ok), <<>>,
            [b \in 1 .. B |->
                CombineOut(self, self.input_dim, node_feats[b],
                           MeanDim1(Group(neib_feats, B, b)))])

SimpleMeanAggregatorForward(self, node_feats, neib_feats) ==
    LET B  == Len(node_feats)
        ok == ViewOk(Len(neib_feats), B)
    IN  Outcome(ok, Ran(SimpleMeanAggregatorSteps, "None", ok), <<>>,
            [b \in 1 .. B |->
                Linear(Weight(self.seed, 2, self.output_dim, self.input_dim),
                       Bias(self.seed, 2, self.output_dim),
                       MeanDim1(Group(neib_feats, B, b)))])

\* lambda x: x.max(dim=1)[0] and lambda x: x.mean(dim=1)
PoolFn(kind, g) == IF kind = "max_pool" THEN MaxDim1(g) ELSE MeanDim1(g)

PoolAggregatorForward(self, node_feats, neib_feats) ==
    LET B  == Len(node_feats)
        h_neib_feats ==
            [r \in DOMAIN neib_feats |->
                Relu(Linear(Weight(self.seed, 3, self.hidden_dim, self.input_dim),
                            Bias(self.seed, 3, self.hidden_dim), neib_feats[r]))]
        ok == ViewOk(Len(h_neib_feats), B)
    IN  Outcome(ok, Ran(PoolAggregatorSteps, self.activation, ok), <<>>,
            [b \in 1 .. B |->
                CombineOut(self, self.hidden_dim, node_feats[b],
                           PoolFn(self.kind, Group(h_neib_feats, B, b)))])

RECURSIVE LstmLast(_, _, _)
\* the last output of self.lstm over the rows g[1..k] of one node; the cell
\* is taken as one bounded recurrent update h' = tanh(W_ih x + W_hh h)
LstmLast(self, g, k) ==
    IF k = 0 THEN Row([i \in 1 .. self.hidden_dim |-> 0])
    ELSE LET h == LstmLast(self, g, k - 1)
             a == Linear(Weight(self.seed, 6, self.hidden_dim, self.input_dim),
                         Bias(self.seed, 6, self.hidden_dim), g[k])
             r == Linear(Weight(self.seed, 7, self.hidden_dim, self.hidden_dim),
                         NoBias(self.hidden_dim), h)
         IN  Tanh(Row([i \in 1 .. self.hidden_dim |-> a.n[i] + r.n[i]]))

LSTMAggregatorForward(self, node_feats, neib_feats) ==
    LET B  == Len(node_feats)
        ok == ViewOk(Len(neib_feats), B)
    IN  Outcome(ok, Ran(LSTMAggregatorSteps, self.activation, ok), <<>>,
            [b \in 1 .. B |->
                LET g == Group(neib_feats, B, b)
                IN  CombineOut(self, self.hidden_dim, node_feats[b],
                               LstmLast(self, g, Len(g)))])

\* self.att: Linear, Tanh, Linear (bias=False)
Att(self, x) ==
    Linear(Weight(self.seed, 5, self.hidden_dim, self.hidden_dim),
           NoBias(self.hidden_dim),
           Tanh(Linear(Weight(self.seed, 4, self.hidden_dim, self.input_dim),
                       NoBias(self.hidden_dim), x)))

\* x.squeeze(): the shape without its dimensions of size 1
Squeeze(shape) == SelectSeq(shape, LAMBDA n : n # 1)

\* F.softmax without dim: torch takes dim 0 for 0, 1 or 3 dimensions, else 1
SoftmaxDim(ndim) == IF ndim \in {0, 1, 3} THEN 0 ELSE 1

\* the flat positions normalised together with position t by a softmax over
\* `dim` of a tensor of this shape (at most two dimensions)
SoftmaxGroup(shape, dim, t, count) ==
    IF Len(shape) = 2 /\ dim = 1
    THEN { u \in 1 .. count : RepeatRow(u, shape[2]) = RepeatRow(t, shape[2]) }
    ELSE IF Len(shape) = 2
    THEN { u \in 1 .. count : (u - t) % shape[2] = 0 }
    ELSE 1 .. count

RECURSIVE SumOver(_, _)
SumOver(f, S) ==
    IF S = {} THEN 0
    ELSE LET x == CHOOSE y \in S : TRUE IN f[x] + SumOver(f, S \ {x})

\* exp(s - m) for the largest score m of the group, in base 2 and with
\* FracBits binary digits; smaller values underflow to 0
ExpFix(s, m) == IF m - s > FracBits THEN 0 ELSE Pow2(FracBits - (m - s))

\* F.softmax(scores) of a flat tensor of the given shape: every weight as the
\* fraction [n, d] over the sum of its group
Softmax(scores, shape) ==
    LET dim == SoftmaxDim(Len(shape))
        grp(t) == SoftmaxGroup(shape, dim, t, Len(scores))
        top(t) == CHOOSE m \in { scores[u] : u \in grp(t) } :
                      \A u \in grp(t) : scores[u] <= m
        e == [t \in DOMAIN scores |-> ExpFix(scores[t], top(t))]
    IN  [t \in DOMAIN scores |-> [n |-> e[t], d |-> SumOver(e, grp(t))]]

\* torch.sum(agg * ws.unsqueeze(-1), dim=1) for agg of shape (B, K, D) and ws
\* of the squeezed shape, by torch's broadcasting: ws.unsqueeze(-1) is padded
\* on the left to three dimensions (p1, p2, 1)
WeightedSum(neib_feats, B, K, ws, shape) ==
    LET p  == IF Len(shape) = 2 THEN shape
              ELSE IF Len(shape) = 1 THEN <<1, shape[1]>> ELSE <<1, 1>>
        J  == Max(K, p[2])
        w(i, j) == ws[((IF p[1] > 1 THEN i ELSE 1) - 1) * p[2]
                      + (IF p[2] > 1 THEN j ELSE 1)]
        x(i, j) == neib_feats[(i - 1) * K + (IF K > 1 THEN j ELSE 1)]
    IN  [i \in 1 .. Max(B, p[1]) |->
            [n |-> [c \in DOMAIN x(i, 1).n |->
                       SumTo([j \in 1 .. J |-> x(i, j).n[c] * w(i, j).n], J)],
             d |-> w(i, 1).d]]

AttentionAggregatorForward(self, node_feats, neib_feats) ==
    LET B  == Len(node_feats)
        neib_att == [r \in DOMAIN neib_feats |-> Att(self, neib_feats[r])]
        node_att == [b \in DOMAIN node_feats |-> Att(self, node_feats[b])]
        ok == ViewOk(Len(neib_att), B)
        K  == Len(neib_att) \div B
        \* torch.bmm(neib_att, node_att): one score per (node, neighbor)
        scores == [t \in 1 .. B * K |->
                      Dot(neib_att[t].n, node_att[RepeatRow(t, K)].n)]
        shape == Squeeze(<<B, K, 1>>)
        ws == Softmax(scores, shape)
        agg_neib_feats == WeightedSum(neib_feats, B, K, ws, shape)
    IN  Outcome(ok, Ran(AttentionAggregatorSteps, self.activation, ok), ws,
            [b \in 1 .. B |->
                CombineOut(self, self.input_dim, node_feats[b], agg_neib_feats[b])])

\* aggregator(node_feats, neib_feats, node_ids, neib_ids)
AggregatorForward(self, node_feats, neib_feats) ==
    CASE self.kind = "mean" -> MeanAggregatorForward(self, node_feats, neib_feats)
      [] self.kind = "simple_mean" ->
            SimpleMeanAggregatorForward(self, node_feats, neib_feats)
      [] self.kind \in {"max_pool", "mean_pool"} ->
            PoolAggregatorForward(self, node_feats, neib_feats)
      [] self.kind = "lstm" -> LSTMAggregatorForward(self, node_feats, neib_feats)
      [] self.kind = "attention" ->
            AttentionAggregatorForward(self, node_feats, neib_feats)

\* the arguments of a constructor; mean, simple_mean and psimple_mean take no
\* hidden_dim
AggArgs(kind) ==
    [input_dim : 1 .. MaxDim, output_dim : 1 .. MaxDim, activation : Activations,
     hidden_dim : IF kind \in HiddenKinds THEN HiddenDims ELSE {0},
     combine_fn : CombineFns, seed : Seeds]

AggInit ==
    /\ agg = Idle
    /\ aggCall = Idle
    /\ SparseUnbuilt /\ DenseUnbuilt /\ PrepUnbuilt

\* aggregator_lookup[kind](input_dim, output_dim, activation, ...)
AggConstruct ==
    /\ agg = Idle
    /\ \E kind \in AggKinds : \E args \in AggArgs(kind) :
        /\ agg' = AggregatorInit(kind, args)
        /\ UNCHANGED <<aggCall, sparseVars, denseVars, prepVars>>

\* aggregator(node_feats, neib_feats, node_ids, neib_ids) on a built aggregator
AggCallForward ==
    /\ agg # Idle
    /\ agg.status = "constructed"
    /\ aggCall = Idle
    /\ \E B \in 1 .. MaxBatch, seed \in Seeds : \E R \in 1 .. (B * MaxNeighbors) :
        LET node_feats == Feats(seed, B, agg.input_dim)
            neib_feats == Feats(seed + 1, R, agg.input_dim)
            r == AggregatorForward(agg, node_feats, neib_feats)
        IN  /\ aggCall' = [status |-> r.status, node_feats |-> node_feats,
                           neib_feats |-> neib_feats, ops |-> r.ops,
                           ws |-> r.ws, out |-> r.out]
            /\ UNCHANGED <<agg, sparseVars, denseVars, prepVars>>

\* the caller takes the result
AggCallOver ==
    /\ aggCall # Idle
    /\ aggCall' = Idle
    /\ UNCHANGED <<agg, sparseVars, denseVars, prepVars>>

AggNext == AggConstruct \/ AggCallForward \/ AggCallOver

SpecAgg == AggInit /\ [][AggNext]_vars

AggCalled == aggCall.status # "idle"

\* the rows of neib_feats are no multiple of the batch size
NotDivisible == Len(aggCall.neib_feats) % Len(aggCall.node_feats) # 0

C7_OutputWidth ==
    (agg # Idle /\ (agg.kind = "lstm" => agg.args.hidden_dim % 2 = 0)) =>
        /\ agg.status = "constructed"
        /\ agg.output_dim = MixinOutputDim(agg.args.combine_fn, agg.args.output_dim)
        /\ aggCall.status = "returned" =>
              \A b \in DOMAIN aggCall.out : Len(aggCall.out[b].n) = agg.output_dim

\* C8: the attention weights of every node, the K entries of ws that belong
\* to its K neighbors, sum to 1.
C8_AttentionWeightsPerNode ==
    (agg # Idle /\ agg.kind = "attention" /\ aggCall.status = "returned") =>
        LET B == Len(aggCall.node_feats)
            K == Len(aggCall.neib_feats) \div B
        IN  \A b \in 1 .. B :
                LET w(k) == aggCall.ws[(b - 1) * K + k]
                IN  /\ \A k \in 1 .. K : w(k).d = w(1).d
                    /\ SumTo([k \in 1 .. K |-> w(k).n], K) = w(1).d

\* the orders of 1 .. k
Orders(k) ==
    { p \in [1 .. k -> 1 .. k] : \A a, b \in 1 .. k : p[a] = p[b] => a = b }

\* neib_feats with the rows of node b reordered by p
ReorderNode(neib_feats, batch, b, p) ==
    LET k == Len(neib_feats) \div batch
    IN  [r \in DOMAIN neib_feats |->
            IF RepeatRow(r, k) = b
            THEN neib_feats[(b - 1) * k + p[r - (b - 1) * k]]
            ELSE neib_feats[r]]

\* C9: for mean, mean_pool and max_pool, reordering the neighbor rows of one
\* node in any way leaves the output of that node as it was.
C9_NeighborOrder ==
    ( /\ agg # Idle
      /\ agg.kind \in {"mean", "mean_pool", "max_pool"}
      /\ aggCall.status = "returned" )
    => LET B == Len(aggCall.node_feats)
           K == Len(aggCall.neib_feats) \div B
       IN  \A b \in 1 .. B : \A p \in Orders(K) :
               AggregatorForward(agg, aggCall.node_feats,
                   ReorderNode(aggCall.neib_feats, B, b, p)).out[b]
               = aggCall.out[b]

\* C9's case: a mean aggregator over two nodes with two neighbors each, the
\* two neighbor rows of the second node being different and its neighbor
\* branch (the last entry of the concatenation) not zero.
C9_Witness ==
    /\ aggCall.status = "returned"
    /\ agg.kind = "mean"
    /\ Len(aggCall.node_feats) = 2
    /\ Len(aggCall.neib_feats) = 4
    /\ aggCall.neib_feats[3] # aggCall.neib_feats[4]
    /\ agg.combine_fn = "cat"
    /\ aggCall.out[2].n[Len(aggCall.out[2].n)] # 0

=============================================================================
